---- MODULE Spec2Model ----
(***************************************************************************)
(* Binance futures testnet bot: BasicBot (src/main.py), its command line   *)
(* front end TradingBotCLI (src/main.py) and the Streamlit dashboard       *)
(* (src/app.py), against a nondeterministic exchange.                      *)
(*                                                                         *)
(* Decimal values (quantities, minQty, stepSize) are exact integers        *)
(* counted in units of 10^-Scale.  Decimal strings are sequences of one-   *)
(* character strings, e.g. <<"0", ".", "5">>.                              *)
(***************************************************************************)
EXTENDS Integers, Sequences, FiniteSets, TLC

\* ------------------------------------------------------------------ bounds
Scale       == 1     \* decimal places carried by the model's unit
MaxStep     == 3     \* largest stepSize, in units
MaxMinQty   == 3     \* largest minQty, in units
MaxQty      == 6     \* largest raw quantity a caller asks for, in units
MaxSessions == 2     \* BasicBot objects one dashboard run constructs
MaxOrders   == 2     \* orders the exchange accepts in one run

\* --------------------------------------------------------- decimal strings
RECURSIVE Pow10(_)
Pow10(n) == IF n = 0 THEN 1 ELSE 10 * Pow10(n - 1)

DigitChars == <<"0", "1", "2", "3", "4", "5", "6", "7", "8", "9">>

DigitChar(d) == DigitChars[d + 1]

DigitVal(c) == CHOOSE d \in 0..9 : DigitChars[d + 1] = c

\* the decimal numeral of a natural number, no leading zeros
RECURSIVE NatToStr(_)
NatToStr(n) == IF n < 10 THEN <<DigitChar(n)>>
               ELSE NatToStr(n \div 10) \o <<DigitChar(n % 10)>>

\* the last w digits of n, zero padded on the left
RECURSIVE PadDigits(_, _)
PadDigits(n, w) == IF w = 0 THEN <<>>
                   ELSE PadDigits(n \div 10, w - 1) \o <<DigitChar(n % 10)>>

RECURSIVE DigitsToNat(_)
DigitsToNat(s) == IF s = <<>> THEN 0
                  ELSE 10 * DigitsToNat(SubSeq(s, 1, Len(s) - 1)) + DigitVal(s[Len(s)])

\* position of the decimal point, or Len(s) + 1 when there is none
PointPos(s) == IF \E i \in 1..Len(s) : s[i] = "."
               THEN CHOOSE i \in 1..Len(s) : s[i] = "."
               ELSE Len(s) + 1

\* Decimal("d.ddd") and float("d.ddd"): the value of a decimal numeral, in units
ParseDecimal(s) ==
    LET p    == PointPos(s)
        ip   == SubSeq(s, 1, p - 1)
        fp   == SubSeq(s, p + 1, Len(s))
    IN  DigitsToNat(ip) * Pow10(Scale) + DigitsToNat(fp) * Pow10(Scale - Len(fp))

\* Decimal rounding of v units to p fractional digits, ROUND_HALF_EVEN (the
\* default context rounding Decimal.__format__ uses); result counted in 10^-p
Quantize(v, p) ==
    IF p >= Scale THEN v * Pow10(p - Scale)
    ELSE LET d == Pow10(Scale - p)
             quo == v \div d
             rem == v % d
         IN  IF 2 * rem > d \/ (2 * rem = d /\ quo % 2 = 1) THEN quo + 1 ELSE quo

\* f"{v:.{p}f}" for a non-negative Decimal v
FormatFixed(v, p) ==
    LET n == Quantize(v, p)
    IN  IF p = 0 THEN NatToStr(n)
        ELSE NatToStr(n \div Pow10(p)) \o <<".">> \o PadDigits(n % Pow10(p), p)

\* Decimal // Decimal: the integer part of the quotient, truncated toward zero
FloorDiv(a, b) == a \div b

\* ------------------------------------------------------------- the exchange
ListedSymbol == "BTCUSDT"

\* symbols and sides as callers type them
Symbols     == {"btcusdt", "DOGEUSDT"}
InfoSymbols == Symbols \cup {"BTCUSDT"}
Sides       == {"sell"}
Prices  == {15}                        \* limit prices, in units

\* str.upper()
upper(s) == CASE s = "btcusdt" -> "BTCUSDT"
              [] s = "sell"    -> "SELL"
              [] s = "buy"     -> "BUY"
              [] OTHER         -> s

\* the trading rules the exchange publishes for the listed symbol, in units
RuleSets == [pricePrecision : {2}, quantityPrecision : 0..Scale,
             minQty : 1..MaxMinQty, stepSize : 1..MaxStep]

\* a request that got no usable reply; err names the exception class
Failure(err) == [failed |-> TRUE, err |-> err]

ExchangeErrors == {"ExchangeRejected", "TransportError"}

\* the outcomes of a create-order or cancel-order request
Verdicts == {"ok", "ExchangeRejected"}

\* client.futures_exchange_info(): the instrument metadata, numbers as strings
futures_exchange_info(rules) ==
    [failed  |-> FALSE,
     symbols |-> << [symbol            |-> ListedSymbol,
                     pricePrecision    |-> rules.pricePrecision,
                     quantityPrecision |-> rules.quantityPrecision,
                     filters |-> << [filterType |-> "PRICE_FILTER",
                                     tickSize   |-> FormatFixed(1, Scale)],
                                    [filterType |-> "LOT_SIZE",
                                     minQty     |-> FormatFixed(rules.minQty, Scale),
                                     stepSize   |-> FormatFixed(rules.stepSize, Scale)] >>] >>]

\* the replies an exchange-info request can get
InfoReplies(rules) == {Failure("TransportError"), futures_exchange_info(rules)}

\* client.futures_create_order(**req): the exchange echoes the order it accepted
futures_create_order(req, verdict, id) ==
    IF verdict # "ok" THEN Failure(verdict)
    ELSE [failed |-> FALSE,
          order  |-> IF req.type = "LIMIT"
                     THEN [orderId |-> id, symbol |-> req.symbol, side |-> req.side,
                           type |-> req.type, origQty |-> req.quantity,
                           price |-> req.price, status |-> "NEW"]
                     ELSE [orderId |-> id, symbol |-> req.symbol, side |-> req.side,
                           type |-> req.type, origQty |-> req.quantity,
                           status |-> "NEW"]]

\* client.futures_cancel_order(symbol, orderId)
futures_cancel_order(req, verdict) ==
    IF verdict # "ok" THEN Failure(verdict)
    ELSE [failed |-> FALSE, ack |-> [orderId |-> req.orderId, symbol |-> req.symbol,
                                     status |-> "CANCELED"]]

\* client.futures_account(): the account snapshot
futures_account ==
    [failed |-> FALSE,
     totalMarginBalance    |-> <<"1", "2", ".", "5">>,
     availableBalance      |-> <<"1", "0", ".", "0">>,
     totalUnrealizedProfit |-> <<"0", ".", "0">>,
     assets |-> << [asset |-> "USDT", walletBalance |-> <<"1", "2", ".", "5">>],
                   [asset |-> "BNB",  walletBalance |-> <<"0", ".", "0">>] >>]

\* client.futures_symbol_ticker(symbol)
futures_symbol_ticker(symbol) ==
    IF symbol = ListedSymbol THEN [failed |-> FALSE, price |-> <<"1", ".", "5">>]
    ELSE Failure("ExchangeRejected")

\* ----------------------------------------------------------------- BasicBot
NoError == "none"
NoInfo  == [absent |-> TRUE]
NoOrder == [absent |-> TRUE]

\* self._symbol_info_cache = {}
EmptyCache == [s \in {} |-> NoInfo]

\* variant: only the ping decides, a failed account fetch is ignored
_test_connection_ping_only(pingOk, accountOk) ==
    [ok       |-> pingOk,
     requests |-> IF pingOk THEN <<"ping", "account">> ELSE <<"ping">>,
     err      |-> IF pingOk THEN NoError ELSE "ConnectionFailed"]

\* _test_connection: ping, then the account fetch; any exception is re-raised
_test_connection(pingOk, accountOk) ==
    [ok       |-> pingOk /\ accountOk,
     requests |-> IF pingOk THEN <<"ping", "account">> ELSE <<"ping">>,
     err      |-> IF pingOk /\ accountOk THEN NoError ELSE "ConnectionFailed"]

\* next(f[field] for f in s['filters'] if f['filterType'] == 'LOT_SIZE')
LotSizeField(filters, field) ==
    LET i == CHOOSE i \in 1..Len(filters) :
                 /\ filters[i].filterType = "LOT_SIZE"
                 /\ \A j \in 1..(i - 1) : filters[j].filterType # "LOT_SIZE"
    IN  filters[i][field]

\* variant: the fetched rules are returned but never stored
get_symbol_info_no_store(cache, symbol, reply) ==
    LET symbol_upper == upper(symbol)
    IN  IF symbol_upper \in DOMAIN cache
        THEN [ok |-> TRUE, info |-> cache[symbol_upper], err |-> NoError,
              cache |-> cache, requests |-> 0]
        ELSE IF reply.failed
        THEN [ok |-> FALSE, info |-> NoInfo, err |-> reply.err,
              cache |-> cache, requests |-> 1]
        ELSE LET found == {i \in 1..Len(reply.symbols) :
                              reply.symbols[i].symbol = symbol_upper}
             IN  IF found = {}
                 THEN [ok |-> FALSE, info |-> NoInfo, err |-> "SymbolNotFound",
                       cache |-> cache, requests |-> 1]
                 ELSE LET s == reply.symbols[CHOOSE i \in found : \A j \in found : i <= j]
                          info == [price_precision    |-> s.pricePrecision,
                                   quantity_precision |-> s.quantityPrecision,
                                   min_qty   |-> ParseDecimal(LotSizeField(s.filters, "minQty")),
                                   step_size |-> ParseDecimal(LotSizeField(s.filters, "stepSize"))]
                      IN  [ok |-> TRUE, info |-> info, err |-> NoError,
                           cache |-> cache, requests |-> 1]

get_symbol_info(cache, symbol, reply) ==
    LET symbol_upper == upper(symbol)
    IN  IF symbol_upper \in DOMAIN cache
        THEN [ok |-> TRUE, info |-> cache[symbol_upper], err |-> NoError,
              cache |-> cache, requests |-> 0]
        ELSE IF reply.failed
        THEN [ok |-> FALSE, info |-> NoInfo, err |-> reply.err,
              cache |-> cache, requests |-> 1]
        ELSE LET found == {i \in 1..Len(reply.symbols) :
                              reply.symbols[i].symbol = symbol_upper}
             IN  IF found = {}
                 THEN [ok |-> FALSE, info |-> NoInfo, err |-> "SymbolNotFound",
                       cache |-> cache, requests |-> 1]
                 ELSE LET s == reply.symbols[CHOOSE i \in found : \A j \in found : i <= j]
                          info == [price_precision    |-> s.pricePrecision,
                                   quantity_precision |-> s.quantityPrecision,
                                   min_qty   |-> ParseDecimal(LotSizeField(s.filters, "minQty")),
                                   step_size |-> ParseDecimal(LotSizeField(s.filters, "stepSize"))]
                      IN  [ok |-> TRUE, info |-> info, err |-> NoError,
                           cache |-> (symbol_upper :> info) @@ cache, requests |-> 1]

\* variant: only a non-positive quantity is refused
below_minimum_positive_only(quantity_dec, min_qty) == quantity_dec <= 0

\* if quantity_dec < min_qty: raise ValueError
below_minimum(quantity_dec, min_qty) == quantity_dec < min_qty

\* (quantity_dec // step_size) * step_size
adjusted_quantity(quantity_dec, step_size) == FloorDiv(quantity_dec, step_size) * step_size

\* quantity is the float's shortest decimal representation, in units, which is
\* what Decimal(str(quantity)) denotes
\* lines 99-105, with symbol_info the outcome of the lookup of line 98
Normalized(symbol_info, quantity) ==
    IF ~symbol_info.ok
    THEN symbol_info @@ [str |-> <<>>]
    ELSE IF below_minimum(quantity, symbol_info.info.min_qty)
    THEN [symbol_info EXCEPT !.ok = FALSE, !.err = "BelowMinimum"] @@ [str |-> <<>>]
    ELSE symbol_info @@
         [str |-> FormatFixed(adjusted_quantity(quantity, symbol_info.info.step_size),
                              symbol_info.info.quantity_precision)]

_validate_and_format_quantity(cache, symbol, quantity, reply) ==
    Normalized(get_symbol_info(cache, symbol, reply), quantity)

\* float(text) of a decimal numeral; float(0) for the default of order.get
float(text) == ParseDecimal(text)

\* variant: a missing price defaults to the order's quantity
_format_order_response_default_qty(order) ==
    [order_id |-> order.orderId,
     symbol   |-> order.symbol,
     side     |-> order.side,
     type     |-> order.type,
     quantity |-> float(order.origQty),
     price    |-> IF "price" \in DOMAIN order THEN float(order.price)
                  ELSE float(order.origQty),
     status   |-> order.status]

_format_order_response(order) ==
    [order_id |-> order.orderId,
     symbol   |-> order.symbol,
     side     |-> order.side,
     type     |-> order.type,
     quantity |-> float(order.origQty),
     price    |-> IF "price" \in DOMAIN order THEN float(order.price) ELSE 0,
     status   |-> order.status]

\* variant: a rejected create-order call is sent a second time
submit_order_retry(req, verdict, id) ==
    LET reply == futures_create_order(req, verdict, id)
    IN  [sent |-> IF reply.failed THEN <<req, req>> ELSE <<req>>, reply |-> reply]

\* one create-order call: the requests sent and the reply the caller sees
submit_order(req, verdict, id) ==
    [sent |-> <<req>>, reply |-> futures_create_order(req, verdict, id)]

\* str(price) of a float: fractional zeros dropped, one digit kept
RECURSIVE StripZeros(_)
StripZeros(d) == IF Len(d) > 1 /\ d[Len(d)] = "0"
                 THEN StripZeros(SubSeq(d, 1, Len(d) - 1)) ELSE d

FloatStr(v) == NatToStr(v \div Pow10(Scale)) \o <<".">>
               \o StripZeros(PadDigits(v % Pow10(Scale), Scale))

\* the outcome of a place-order call that sent what sub says, after
\* normalisation v
Placed(v, sub) ==
    [ok |-> ~sub.reply.failed,
     err |-> IF sub.reply.failed THEN sub.reply.err ELSE NoError,
     result |-> IF sub.reply.failed THEN NoOrder
                ELSE _format_order_response(sub.reply.order),
     info |-> v.info, cache |-> v.cache, requests |-> v.requests, sent |-> sub.sent]

\* variant: the order is sent whatever the normalisation said
SubmitNormalized_unchecked(v, quantity, verdict, id, order) ==
    Placed(v, submit_order([order EXCEPT !.quantity = IF v.ok THEN v.str
                                                      ELSE FormatFixed(quantity, Scale)],
                           verdict, id))

\* lines 114-117 and 121-125: the normalisation raised, or the order is sent
\* with quantity=formatted_quantity and the reply is mapped
SubmitNormalized(v, quantity, verdict, id, order) ==
    IF ~v.ok
    THEN [ok |-> FALSE, err |-> v.err, result |-> NoOrder, info |-> v.info,
          cache |-> v.cache, requests |-> v.requests, sent |-> <<>>]
    ELSE Placed(v, submit_order([order EXCEPT !.quantity = v.str], verdict, id))

\* the part place_market_order and place_limit_order share
PlaceOrder(cache, symbol, quantity, reply, verdict, id, order) ==
    SubmitNormalized(_validate_and_format_quantity(cache, symbol, quantity, reply),
                     quantity, verdict, id, order)

place_market_order(cache, symbol, side, quantity, reply, verdict, id) ==
    PlaceOrder(cache, symbol, quantity, reply, verdict, id,
               [kind |-> "create", symbol |-> upper(symbol), side |-> upper(side),
                type |-> "MARKET", quantity |-> <<>>])

place_limit_order(cache, symbol, side, quantity, price, reply, verdict, id) ==
    PlaceOrder(cache, symbol, quantity, reply, verdict, id,
               [kind |-> "create", symbol |-> upper(symbol), side |-> upper(side),
                type |-> "LIMIT", timeInForce |-> "GTC", quantity |-> <<>>,
                price |-> FloatStr(price)])

cancel_order(symbol, order_id, verdict) ==
    LET req   == [kind |-> "cancel", symbol |-> upper(symbol), orderId |-> order_id]
        reply == futures_cancel_order(req, verdict)
    IN  [ok |-> ~reply.failed, err |-> IF reply.failed THEN reply.err ELSE NoError,
         result |-> IF reply.failed THEN NoOrder ELSE reply.ack, sent |-> <<req>>]

\* client.futures_get_open_orders(**params): symbol "" stands for no symbol
futures_get_open_orders(open, symbol) ==
    SelectSeq(open, LAMBDA o : symbol = "" \/ o.symbol = symbol)

RECURSIVE MapOrders(_)
MapOrders(orders) == IF orders = <<>> THEN <<>>
                     ELSE <<_format_order_response(Head(orders))>> \o MapOrders(Tail(orders))

get_open_orders(open, symbol, failed) ==
    IF failed # NoError THEN [ok |-> FALSE, err |-> failed, result |-> <<>>]
    ELSE [ok |-> TRUE, err |-> NoError,
          result |-> MapOrders(futures_get_open_orders(open, upper(symbol)))]

get_account_balance(account) ==
    IF account.failed THEN [ok |-> FALSE, err |-> account.err, result |-> NoInfo]
    ELSE [ok |-> TRUE, err |-> NoError,
          result |-> [total_margin_balance |-> float(account.totalMarginBalance),
                      available_balance    |-> float(account.availableBalance),
                      total_unrealized_pnl |-> float(account.totalUnrealizedProfit),
                      balances |-> SelectSeq(account.assets,
                                      LAMBDA b : float(b.walletBalance) > 0)]]

get_current_price(symbol, failed) ==
    LET ticker == IF failed # NoError THEN Failure(failed)
                  ELSE futures_symbol_ticker(upper(symbol))
    IN  IF ticker.failed THEN [ok |-> FALSE, err |-> ticker.err, result |-> 0]
        ELSE [ok |-> TRUE, err |-> NoError, result |-> float(ticker.price)]

\* -------------------------------------------------------------------- state
VARIABLES
    frontEnd,   \* who drives BasicBot: "api" (a direct caller), "cli", "dashboard"
    exchange,   \* [rules, open, next_id]: published rules, open orders, next order id
    sessions,   \* per BasicBot object: [state, ping, account]
    bot,        \* the BasicBot the driver holds (self.bot, st.session_state.bot); 0 is None
    cache,      \* bot._symbol_info_cache
    call,       \* the latest BasicBot method invocation: [op, session, args, out]
    prev,       \* what the invocation before it was (kept for get_symbol_info)
    cli,        \* TradingBotCLI: [pc, running]
    st,         \* st.session_state besides bot, and whether the cancel form is on the page
    ui,         \* the latest handler run: [event, failed, msgs, crashed]
    hist        \* history: sessions operated on, list staleness

vars == <<frontEnd, exchange, sessions, bot, cache, call, prev, cli, st, ui, hist>>

NoCall == [op |-> "none", session |-> 0, args |-> NoInfo, out |-> NoInfo]

Summary(c) == IF c.op = "get_symbol_info"
              THEN [op |-> c.op, symbol |-> c.args.symbol,
                    out |-> [ok |-> c.out.ok, info |-> c.out.info, err |-> c.out.err,
                             requests |-> c.out.requests]]
              ELSE [op |-> "other"]

CallOn(b, op, args, out) == [op |-> op, session |-> b, args |-> args, out |-> out]

Call(op, args, out) == CallOn(bot, op, args, out)

FreshSessions == {i \in 1..MaxSessions : sessions[i].state = "Uninitialized"}

NewSession == CHOOSE i \in FreshSessions : \A j \in FreshSessions : i <= j

\* BasicBot.__init__: the object exists for the caller only if no exception left it
BasicBot_init(pingOk, accountOk) ==
    LET t == _test_connection(pingOk, accountOk)
    IN  [ok |-> t.ok, err |-> t.err,
         state |-> IF t.ok THEN "Connected" ELSE "Failed",
         ping |-> pingOk, account |-> pingOk /\ accountOk]

InitCommon ==
    /\ exchange \in [rules : RuleSets, open : {<<>>}, next_id : {1}]
    /\ sessions = [i \in 1..MaxSessions |->
                      [state |-> "Uninitialized", ping |-> FALSE, account |-> FALSE]]
    /\ bot = 0
    /\ cache = EmptyCache
    /\ call = NoCall
    /\ prev = Summary(NoCall)
    /\ cli = [pc |-> "start", running |-> TRUE]
    /\ st = [has_orders |-> FALSE, open_orders |-> <<>>, cancel_shown |-> FALSE]
    /\ ui = [event |-> "none", failed |-> {}, msgs |-> {}, crashed |-> FALSE]
    /\ hist = [invoked |-> {}, stale |-> FALSE]

\* rule sets whose minQty is the largest, for the runs that place orders
OrderRuleSets == {r \in RuleSets : r.minQty = MaxMinQty}

Init == frontEnd = "api" /\ InitCommon

InitOrders == Init /\ exchange.rules \in OrderRuleSets

\* the quantities asked for in the runs that place orders: nothing, just
\* under the minimum, the minimum, and the largest
OrderQtys == {0, MaxMinQty - 1, MaxMinQty, MaxQty}

\* the exchange after a create-order outcome
AfterCreate(out) ==
    IF out.ok
    THEN [exchange EXCEPT !.next_id = @ + 1,
                          !.open = IF out.result.type = "LIMIT"
                                   THEN Append(@, futures_create_order(
                                                    out.sent[1], "ok", exchange.next_id).order)
                                   ELSE @]
    ELSE exchange

\* the exchange after a cancel-order outcome
AfterCancel(out) ==
    IF out.ok
    THEN [exchange EXCEPT !.open = SelectSeq(@, LAMBDA o : o.orderId # out.sent[1].orderId)]
    ELSE exchange

CreateVerdicts == IF exchange.next_id <= MaxOrders THEN Verdicts ELSE Verdicts \ {"ok"}

CancelVerdicts(symbol, order_id) ==
    IF \E i \in 1..Len(exchange.open) :
           exchange.open[i].orderId = order_id /\ exchange.open[i].symbol = upper(symbol)
    THEN Verdicts
    ELSE Verdicts \ {"ok"}

Logged(c) == /\ call' = c
             /\ prev' = Summary(call)
             /\ hist' = [hist EXCEPT !.invoked = @ \cup {c.session}]

UIUnchanged == UNCHANGED <<frontEnd, cli, st, ui>>

\* ------------------------------------------------- BasicBot driven directly
Construct(pingOk, accountOk) ==
    /\ frontEnd = "api"
    /\ bot = 0
    /\ FreshSessions # {}
    /\ LET b == BasicBot_init(pingOk, accountOk)
       IN  /\ sessions' = [sessions EXCEPT ![NewSession] =
                              [state |-> b.state, ping |-> b.ping, account |-> b.account]]
           /\ bot' = IF b.ok THEN NewSession ELSE 0
    /\ cache' = EmptyCache
    /\ UNCHANGED <<exchange, call, prev, hist>>
    /\ UIUnchanged

ApiGetSymbolInfo(symbol, reply) ==
    /\ frontEnd = "api" /\ bot # 0
    /\ \E out \in {get_symbol_info(cache, symbol, reply)} :
           /\ cache' = out.cache
           /\ Logged(Call("get_symbol_info",
                          [symbol |-> symbol, reply_failed |-> reply.failed], out))
    /\ UNCHANGED <<exchange, sessions, bot>>
    /\ UIUnchanged

ApiValidateQuantity(symbol, quantity, reply) ==
    /\ frontEnd = "api" /\ bot # 0
    /\ \E out \in {_validate_and_format_quantity(cache, symbol, quantity, reply)} :
           /\ cache' = out.cache
           /\ Logged(Call("_validate_and_format_quantity",
                          [symbol |-> symbol, quantity |-> quantity,
                           reply_failed |-> reply.failed], out))
    /\ UNCHANGED <<exchange, sessions, bot>>
    /\ UIUnchanged

ApiPlaceMarketOrder(symbol, side, quantity, reply, verdict) ==
    /\ frontEnd = "api" /\ bot # 0
    /\ \E out \in {place_market_order(cache, symbol, side, quantity, reply, verdict,
                                        exchange.next_id)} :
           /\ cache' = out.cache
           /\ exchange' = AfterCreate(out)
           /\ Logged(Call("place_market_order",
                          [symbol |-> symbol, side |-> side, quantity |-> quantity,
                           reply_failed |-> reply.failed, verdict |-> verdict], out))
    /\ UNCHANGED <<sessions, bot>>
    /\ UIUnchanged

ApiPlaceLimitOrder(symbol, side, quantity, price, reply, verdict) ==
    /\ frontEnd = "api" /\ bot # 0
    /\ \E out \in {place_limit_order(cache, symbol, side, quantity, price, reply, verdict,
                                       exchange.next_id)} :
           /\ cache' = out.cache
           /\ exchange' = AfterCreate(out)
           /\ Logged(Call("place_limit_order",
                          [symbol |-> symbol, side |-> side, quantity |-> quantity,
                           price |-> price, reply_failed |-> reply.failed,
                           verdict |-> verdict], out))
    /\ UNCHANGED <<sessions, bot>>
    /\ UIUnchanged

ApiCancelOrder(symbol, order_id, verdict) ==
    /\ frontEnd = "api" /\ bot # 0
    /\ \E out \in {cancel_order(symbol, order_id, verdict)} :
           /\ exchange' = AfterCancel(out)
           /\ Logged(Call("cancel_order", [symbol |-> symbol, order_id |-> order_id,
                                           verdict |-> verdict], out))
    /\ UNCHANGED <<sessions, bot, cache>>
    /\ UIUnchanged

ApiGetOpenOrders(symbol, failed) ==
    /\ frontEnd = "api" /\ bot # 0
    /\ Logged(Call("get_open_orders", [symbol |-> symbol],
                   get_open_orders(exchange.open, symbol, failed)))
    /\ UNCHANGED <<exchange, sessions, bot, cache>>
    /\ UIUnchanged

ApiGetAccountBalance(account) ==
    /\ frontEnd = "api" /\ bot # 0
    /\ Logged(Call("get_account_balance", NoInfo, get_account_balance(account)))
    /\ UNCHANGED <<exchange, sessions, bot, cache>>
    /\ UIUnchanged

ApiGetCurrentPrice(symbol, failed) ==
    /\ frontEnd = "api" /\ bot # 0
    /\ Logged(Call("get_current_price", [symbol |-> symbol],
                   get_current_price(symbol, failed)))
    /\ UNCHANGED <<exchange, sessions, bot, cache>>
    /\ UIUnchanged

\* raw order records the exchange can hand back: a market order reply carries
\* no price field
RawOrders ==
    {futures_create_order([kind |-> "create", symbol |-> ListedSymbol, side |-> "BUY",
                           type |-> "MARKET", quantity |-> FormatFixed(q, Scale)],
                          "ok", id).order : q \in OrderQtys, id \in 1..MaxOrders}
    \cup
    {futures_create_order([kind |-> "create", symbol |-> ListedSymbol, side |-> "SELL",
                           type |-> "LIMIT", timeInForce |-> "GTC",
                           quantity |-> FormatFixed(q, Scale), price |-> FloatStr(p)],
                          "ok", id).order : q \in OrderQtys, p \in Prices, id \in 1..MaxOrders}

ApiFormatOrderResponse(order) ==
    /\ frontEnd = "api" /\ bot # 0
    /\ Logged(Call("_format_order_response", [order |-> order],
                   [ok |-> TRUE, err |-> NoError, result |-> _format_order_response(order)]))
    /\ UNCHANGED <<exchange, sessions, bot, cache>>
    /\ UIUnchanged

Replies  == InfoReplies(exchange.rules)
Failures == {NoError} \cup ExchangeErrors
Accounts == {futures_account} \cup {Failure(e) : e \in ExchangeErrors}

\* BasicBot's lookups, driven directly
Next ==
    \/ \E p \in BOOLEAN, a \in BOOLEAN : Construct(p, a)
    \/ \E s \in InfoSymbols, r \in Replies : ApiGetSymbolInfo(s, r)
    \/ \E s \in Symbols, q \in 0..MaxQty, r \in Replies : ApiValidateQuantity(s, q, r)
    \/ \E a \in Accounts : ApiGetAccountBalance(a)
    \/ \E s \in Symbols, f \in Failures : ApiGetCurrentPrice(s, f)

Spec == Init /\ [][Next]_vars

\* BasicBot's order gateway, driven directly
NextOrders ==
    \/ \E p \in BOOLEAN, a \in BOOLEAN : Construct(p, a)
    \/ \E s \in Symbols, d \in Sides, q \in OrderQtys, r \in Replies, v \in CreateVerdicts :
          ApiPlaceMarketOrder(s, d, q, r, v)
    \/ \E s \in Symbols, d \in Sides, q \in OrderQtys, p \in Prices, r \in Replies,
          v \in CreateVerdicts : ApiPlaceLimitOrder(s, d, q, p, r, v)
    \/ \E s \in Symbols, i \in 1..MaxOrders : \E v \in CancelVerdicts(s, i) :
          ApiCancelOrder(s, i, v)
    \/ \E s \in Symbols \cup {""}, f \in Failures : ApiGetOpenOrders(s, f)
    \/ \E o \in RawOrders : ApiFormatOrderResponse(o)

SpecOrders == InitOrders /\ [][NextOrders]_vars

\* ------------------------------------------------------------ TradingBotCLI
\* what the front ends read from a text prompt: a numeral or something else
Text(v)    == [numeric |-> TRUE, value |-> v]
NotANumber == [numeric |-> FALSE, value |-> 0]

\* rule sets and quantities of the front-end runs
UIRuleSets == {r \in RuleSets : r.minQty = MaxMinQty /\ r.stepSize = MaxStep}
UIQtys     == {0, 1, MaxQty}
QtyTexts   == {NotANumber} \cup {Text(q) : q \in UIQtys}
IdTexts    == {NotANumber} \cup {Text(i) : i \in 1..MaxOrders}
CliSides   == {"sell", "hold"}

\* what the exchange does to a front end's read requests
UIFailures == {NoError, "TransportError"}
UIAccounts == {futures_account, Failure("TransportError")}

\* a handler that called nothing and printed msgs
Printed(msgs) == [calls |-> <<>>, failed |-> {}, msgs |-> msgs, crashed |-> FALSE,
                  cache |-> cache, exchange |-> exchange]

\* variant: the call is made outside any try block
Untried(c, okmsg, errmsg, ch, ex) ==
    [calls |-> <<c>>, failed |-> IF c.out.ok THEN {} ELSE {c.op},
     msgs |-> IF c.out.ok THEN {okmsg} ELSE {}, crashed |-> ~c.out.ok,
     cache |-> ch, exchange |-> ex]

\* try: <one BasicBot call> except Exception as e: print(errmsg)
Tried(c, okmsg, errmsg, ch, ex) ==
    [calls |-> <<c>>, failed |-> IF c.out.ok THEN {} ELSE {c.op},
     msgs |-> IF c.out.ok THEN {okmsg} ELSE {errmsg}, crashed |-> FALSE,
     cache |-> ch, exchange |-> ex]

\* a tried create-order call: the cache and the exchange are as the call left them
TriedOrder(c, okmsg, errmsg) == Tried(c, okmsg, errmsg, c.out.cache, AfterCreate(c.out))

\* a tried get_open_orders call
TriedList(c, emptymsg, tablemsg, errmsg, ch) ==
    Tried(c, IF c.out.result = <<>> THEN emptymsg ELSE tablemsg, errmsg, ch, exchange)

\* a tried cancel-order call
TriedCancel(c, okmsg, errmsg, ch) == Tried(c, okmsg, errmsg, ch, AfterCancel(c.out))

\* two parts of one handler run, in order
Then(r1, r2) == [calls |-> r1.calls \o r2.calls, failed |-> r1.failed \cup r2.failed,
                 msgs |-> r1.msgs \cup r2.msgs, crashed |-> r1.crashed \/ r2.crashed,
                 cache |-> r2.cache, exchange |-> r2.exchange]

Saying(run, msgs) == [run EXCEPT !.msgs = @ \cup msgs]

show_account_balance(account) ==
    Tried(Call("get_account_balance", NoInfo, get_account_balance(account)),
          "ACCOUNT BALANCE", "Failed to get balance", cache, exchange)

show_current_price(symbol, failed) ==
    IF upper(symbol) = "" THEN Printed({})
    ELSE Tried(Call("get_current_price", [symbol |-> upper(symbol)],
                    get_current_price(upper(symbol), failed)),
               "Current price", "Failed to get price", cache, exchange)

place_order_cli(order_type, symbol, side, quantity, price, reply, verdict) ==
    IF \/ ~quantity.numeric
       \/ upper(side) \notin {"BUY", "SELL"}
       \/ quantity.value <= 0
    THEN Printed({"Failed to place order"})
    ELSE TriedOrder(
             Call(IF order_type = "LIMIT" THEN "place_limit_order" ELSE "place_market_order",
                  [symbol |-> upper(symbol), side |-> upper(side),
                   quantity |-> quantity.value, reply_failed |-> reply.failed,
                   verdict |-> verdict],
                  IF order_type = "LIMIT"
                  THEN place_limit_order(cache, upper(symbol), upper(side), quantity.value,
                                         price, reply, verdict, exchange.next_id)
                  ELSE place_market_order(cache, upper(symbol), upper(side),
                                          quantity.value, reply, verdict, exchange.next_id)),
             "order placed successfully", "Failed to place order")

show_open_orders(failed) ==
    TriedList(Call("get_open_orders", [symbol |-> ""],
                   get_open_orders(exchange.open, "", failed)),
              "No open orders found", "open orders table", "Failed to get open orders", cache)

\* the orders of a list whose order_id is id
Matching(orders, id) == SelectSeq(orders, LAMBDA o : o.order_id = id)

\* lines 246-256, with listed the run of the get_open_orders call of line 245
CancelListed(listed, id, verdict) ==
    IF listed.failed # {} \/ listed.calls[1].out.result = <<>> THEN listed
    ELSE IF ~id.numeric THEN Saying(listed, {"Failed to cancel order"})
    ELSE IF Matching(listed.calls[1].out.result, id.value) = <<>>
    THEN Saying(listed, {"Order ID not found"})
    ELSE Then(listed,
              TriedCancel(
                  Call("cancel_order",
                       [symbol |-> Matching(listed.calls[1].out.result, id.value)[1].symbol,
                        order_id |-> id.value, verdict |-> verdict],
                       cancel_order(Matching(listed.calls[1].out.result, id.value)[1].symbol,
                                    id.value, verdict)),
                  "cancelled successfully", "Failed to cancel order", cache))

cancel_order_cli(failed1, failed2, id, verdict) ==
    Then(show_open_orders(failed1),
         CancelListed(TriedList(Call("get_open_orders", [symbol |-> ""],
                                     get_open_orders(exchange.open, "", failed2)),
                                "", "", "Failed to cancel order", cache),
                      id, verdict))

\* the effect of a handler run on the session, the exchange and the history
AppliedWith(event, run, stale) ==
    /\ cache' = run.cache
    /\ exchange' = run.exchange
    /\ call' = IF run.calls = <<>> THEN call ELSE run.calls[Len(run.calls)]
    /\ prev' = IF run.calls = <<>> THEN prev
               ELSE IF Len(run.calls) = 1 THEN Summary(call)
               ELSE Summary(run.calls[Len(run.calls) - 1])
    /\ hist' = [invoked |-> hist.invoked \cup
                                {run.calls[i].session : i \in 1..Len(run.calls)},
                 stale   |-> stale]
    /\ ui' = [event |-> event, failed |-> run.failed, msgs |-> run.msgs \ {""},
              crashed |-> run.crashed]

Applied(event, run) == AppliedWith(event, run, hist.stale)

\* run(): initialize_bot, which builds the BasicBot and shows the balance once
CliInitialize(have_credentials, pingOk, accountOk, account) ==
    /\ frontEnd = "cli" /\ cli.pc = "start"
    /\ IF ~have_credentials
       THEN /\ ui' = [event |-> "start", failed |-> {}, crashed |-> FALSE,
                      msgs |-> {"API Key and Secret are required"}]
            /\ cli' = [cli EXCEPT !.pc = "terminated"]
            /\ UNCHANGED <<exchange, sessions, bot, cache, call, prev, hist>>
       ELSE LET b == BasicBot_init(pingOk, accountOk)
            IN  /\ sessions' = [sessions EXCEPT ![NewSession] =
                                   [state |-> b.state, ping |-> b.ping, account |-> b.account]]
                /\ bot' = IF b.ok THEN NewSession ELSE 0
                /\ IF b.ok
                   THEN /\ Applied("start",
                                   Tried(CallOn(NewSession, "get_account_balance", NoInfo,
                                                get_account_balance(account)),
                                         "ACCOUNT BALANCE", "Failed to get balance",
                                         EmptyCache, exchange))
                        /\ cli' = [cli EXCEPT !.pc = IF ui'.crashed THEN "terminated"
                                                     ELSE "menu"]
                   ELSE /\ ui' = [event |-> "start", failed |-> {}, crashed |-> FALSE,
                                  msgs |-> {"Failed to initialize bot"}]
                        /\ cli' = [cli EXCEPT !.pc = "terminated"]
                        /\ UNCHANGED <<exchange, cache, call, prev, hist>>
    /\ UNCHANGED <<frontEnd, st>>

\* one turn of the menu loop running handler run for a choice in 1..6
CliTurn(choice, run) ==
    /\ frontEnd = "cli" /\ cli.pc = "menu" /\ cli.running
    /\ Applied(choice, run)
    /\ cli' = IF run.crashed THEN [cli EXCEPT !.pc = "terminated"] ELSE cli
    /\ UNCHANGED <<frontEnd, sessions, bot, st>>

CliBalance(account) == CliTurn("1", show_account_balance(account))

CliPrice(symbol, failed) == CliTurn("2", show_current_price(symbol, failed))

CliMarket(symbol, side, quantity, reply, verdict) ==
    CliTurn("3", place_order_cli("MARKET", symbol, side, quantity, 0, reply, verdict))

CliLimit(symbol, side, quantity, price, reply, verdict) ==
    CliTurn("4", place_order_cli("LIMIT", symbol, side, quantity, price, reply, verdict))

CliOpenOrders(failed) == CliTurn("5", show_open_orders(failed))

CliCancel(failed1, failed2, id, verdict) ==
    CliTurn("6", cancel_order_cli(failed1, failed2, id, verdict))

CliInvalidChoice == CliTurn("other", Printed({"Invalid choice"}))

\* choice 7: running = False, the loop ends and run() returns
CliExit ==
    /\ frontEnd = "cli" /\ cli.pc = "menu" /\ cli.running
    /\ cli' = [pc |-> "terminated", running |-> FALSE]
    /\ ui' = [event |-> "7", failed |-> {}, msgs |-> {"Goodbye"}, crashed |-> FALSE]
    /\ UNCHANGED <<frontEnd, exchange, sessions, bot, cache, call, prev, st, hist>>

\* ---------------------------------------------------------------- dashboard
DashSymbols == {upper(s) : s \in Symbols}
DashSides   == {"BUY"}
DashQtys    == {1, MaxQty}

Skipped(ch, ex) == [calls |-> <<>>, failed |-> {}, msgs |-> {}, crashed |-> FALSE,
                    cache |-> ch, exchange |-> ex]

\* the "Connect to Binance" button
connect_button(have_credentials, pingOk, accountOk) ==
    IF ~have_credentials
    THEN [bot |-> bot, cache |-> cache, sessions |-> sessions,
          msgs |-> {"Please provide both API Key and Secret."}]
    ELSE LET b == BasicBot_init(pingOk, accountOk)
         IN  [bot |-> IF b.ok THEN NewSession ELSE 0,
              cache |-> EmptyCache,
              sessions |-> [sessions EXCEPT ![NewSession] =
                               [state |-> b.state, ping |-> b.ping, account |-> b.account]],
              msgs |-> IF b.ok THEN {"Connected successfully!"} ELSE {"Connection failed"}]

\* the "Account Balance" expander, run whenever a bot is in the session state
balance_expander(b, ch, account) ==
    Tried(CallOn(b, "get_account_balance", NoInfo, get_account_balance(account)),
          "balance metrics", "Could not retrieve balance", ch, exchange)

\* the submitted order form
order_form(b, ch, order_type, symbol, side, quantity, price, reply, verdict) ==
    TriedOrder(
        CallOn(b, IF order_type = "MARKET" THEN "place_market_order" ELSE "place_limit_order",
               [symbol |-> symbol, side |-> side, quantity |-> quantity,
                reply_failed |-> reply.failed, verdict |-> verdict],
               IF order_type = "MARKET"
               THEN place_market_order(ch, symbol, side, quantity, reply, verdict,
                                       exchange.next_id)
               ELSE place_limit_order(ch, symbol, side, quantity, price, reply, verdict,
                                      exchange.next_id)),
        "Order placed successfully!", "Order failed")

\* the "Refresh Open Orders" button
refresh_button(b, ch, failed) ==
    TriedList(CallOn(b, "get_open_orders", [symbol |-> ""],
                     get_open_orders(exchange.open, "", failed)),
              "No open orders found.", "", "Could not fetch orders", ch)

\* the "Cancel Order" button under the stored list
cancel_button(b, ch, open_orders, id, verdict) ==
    IF ~id.numeric \/ Matching(open_orders, id.value) = <<>>
    THEN Saying(Skipped(ch, exchange), {"Failed to cancel order"})
    ELSE TriedCancel(
             CallOn(b, "cancel_order",
                    [symbol |-> Matching(open_orders, id.value)[1].symbol,
                     order_id |-> id.value, verdict |-> verdict],
                    cancel_order(Matching(open_orders, id.value)[1].symbol, id.value,
                                 verdict)),
             "Order cancelled.", "Failed to cancel order", ch)

\* line 90: the stored list is there and not empty
CancelFormShown(s) == s.has_orders /\ s.open_orders # <<>>

\* a script run with no button pressed (first load, a text box edited)
DashRerun(account) ==
    /\ frontEnd = "dashboard"
    /\ IF bot # 0
       THEN /\ Applied("rerun", balance_expander(bot, cache, account))
            /\ st' = [st EXCEPT !.cancel_shown = CancelFormShown(st)]
       ELSE /\ ui' = [event |-> "rerun", failed |-> {}, crashed |-> FALSE,
                      msgs |-> {"Please connect"}]
            /\ st' = [st EXCEPT !.cancel_shown = FALSE]
            /\ UNCHANGED <<exchange, cache, call, prev, hist>>
    /\ UNCHANGED <<frontEnd, sessions, bot, cli>>

DashConnect(have_credentials, pingOk, accountOk, account) ==
    /\ frontEnd = "dashboard"
    /\ have_credentials => FreshSessions # {}
    /\ \E c \in {connect_button(have_credentials, pingOk, accountOk)} :
           /\ bot' = c.bot
           /\ sessions' = c.sessions
           /\ IF c.bot # 0
              THEN /\ Applied("connect",
                              Saying(balance_expander(c.bot, c.cache, account), c.msgs))
                   /\ st' = [st EXCEPT !.cancel_shown = CancelFormShown(st)]
              ELSE /\ ui' = [event |-> "connect", failed |-> {}, crashed |-> FALSE,
                             msgs |-> c.msgs \cup {"Please connect"}]
                   /\ cache' = c.cache
                   /\ st' = [st EXCEPT !.cancel_shown = FALSE]
                   /\ UNCHANGED <<exchange, call, prev, hist>>
    /\ UNCHANGED <<frontEnd, cli>>

DashPlaceOrder(order_type, symbol, side, quantity, price, reply, verdict, account) ==
    /\ frontEnd = "dashboard" /\ bot # 0
    /\ \E form \in {order_form(bot, cache, order_type, symbol, side, quantity, price,
                                reply, verdict)} :
           AppliedWith("place", Then(balance_expander(bot, cache, account), form),
                       hist.stale \/ (form.failed = {} /\ st.has_orders))
    /\ st' = [st EXCEPT !.cancel_shown = CancelFormShown(st)]
    /\ UNCHANGED <<frontEnd, sessions, bot, cli>>

DashRefresh(failed, account) ==
    /\ frontEnd = "dashboard" /\ bot # 0
    /\ \E ref \in {refresh_button(bot, cache, failed)} :
           /\ AppliedWith("refresh", Then(balance_expander(bot, cache, account), ref),
                          hist.stale /\ ref.failed # {})
           /\ st' = IF ref.failed = {}
                    THEN [has_orders   |-> TRUE,
                          open_orders  |-> ref.calls[1].out.result,
                          cancel_shown |-> ref.calls[1].out.result # <<>>]
                    ELSE [st EXCEPT !.cancel_shown = CancelFormShown(st)]
    /\ UNCHANGED <<frontEnd, sessions, bot, cli>>

DashCancel(id, verdict, account) ==
    /\ frontEnd = "dashboard" /\ bot # 0 /\ st.cancel_shown
    /\ \E can \in {IF CancelFormShown(st)
                     THEN cancel_button(bot, cache, st.open_orders, id, verdict)
                     ELSE Skipped(cache, exchange)} :
           /\ AppliedWith("cancel", Then(balance_expander(bot, cache, account), can),
                          hist.stale /\ "Order cancelled." \notin can.msgs)
           /\ st' = IF "Order cancelled." \in can.msgs
                    THEN [has_orders |-> FALSE, open_orders |-> <<>>, cancel_shown |-> TRUE]
                    ELSE [st EXCEPT !.cancel_shown = CancelFormShown(st)]
    /\ UNCHANGED <<frontEnd, sessions, bot, cli>>

InitUI ==
    /\ frontEnd \in {"cli", "dashboard"}
    /\ InitCommon
    /\ exchange.rules \in UIRuleSets

NextUI ==
    \/ \E c \in BOOLEAN, p \in BOOLEAN, a \in BOOLEAN, acc \in UIAccounts :
          CliInitialize(c, p, a, acc)
    \/ \E acc \in UIAccounts : CliBalance(acc)
    \/ \E s \in Symbols \cup {""}, f \in UIFailures : CliPrice(s, f)
    \/ \E s \in Symbols, d \in CliSides, q \in QtyTexts, r \in Replies, v \in CreateVerdicts :
          CliMarket(s, d, q, r, v)
    \/ \E s \in Symbols, d \in CliSides, q \in QtyTexts, p \in Prices, r \in Replies,
          v \in CreateVerdicts : CliLimit(s, d, q, p, r, v)
    \/ \E f \in UIFailures : CliOpenOrders(f)
    \/ \E f1 \in UIFailures, f2 \in UIFailures, i \in IdTexts, v \in Verdicts :
          /\ (v = "ok" => i.numeric /\ "ok" \in CancelVerdicts(ListedSymbol, i.value))
          /\ CliCancel(f1, f2, i, v)
    \/ CliInvalidChoice
    \/ CliExit
    \/ \E acc \in UIAccounts : DashRerun(acc)
    \/ \E c \in BOOLEAN, p \in BOOLEAN, a \in BOOLEAN, acc \in UIAccounts :
          DashConnect(c, p, a, acc)
    \/ \E t \in {"MARKET", "LIMIT"}, s \in DashSymbols, d \in DashSides, q \in DashQtys,
          p \in Prices, r \in Replies, v \in CreateVerdicts, acc \in UIAccounts :
          DashPlaceOrder(t, s, d, q, p, r, v, acc)
    \/ \E f \in UIFailures, acc \in UIAccounts : DashRefresh(f, acc)
    \/ \E i \in IdTexts, v \in Verdicts, acc \in UIAccounts :
          /\ (v = "ok" => i.numeric /\ "ok" \in CancelVerdicts(ListedSymbol, i.value))
          /\ DashCancel(i, v, acc)

SpecUI == InitUI /\ [][NextUI]_vars

\* ------------------------------------------------------------------ claims
PlaceOps == {"place_market_order", "place_limit_order"}

\* the latest call was about the listed symbol, whatever the case it was typed in
OnListed == upper(call.args.symbol) = ListedSymbol

\* C1: for every rule set and every raw quantity q >= minQuantity,
\* _validate_and_format_quantity returns a string whose parsed value is an
\* exact integer multiple of stepSize and is <= q.
C1_NormalizedIsStepMultipleBelowRaw ==
    (/\ call.op = "_validate_and_format_quantity"
     /\ call.out.info # NoInfo
     /\ call.args.quantity >= exchange.rules.minQty)
    => /\ call.out.ok
       /\ ParseDecimal(call.out.str) % exchange.rules.stepSize = 0
       /\ ParseDecimal(call.out.str) <= call.args.quantity

\* C2: every quantity place_market_order or place_limit_order submits in a
\* create-order request is an integer multiple of the symbol's stepSize and is
\* >= the symbol's minQuantity.
C2_SubmittedQuantityValid ==
    call.op \in PlaceOps =>
        \A i \in 1..Len(call.out.sent) :
            /\ ParseDecimal(call.out.sent[i].quantity) % exchange.rules.stepSize = 0
            /\ ParseDecimal(call.out.sent[i].quantity) >= exchange.rules.minQty

\* C3: for every raw quantity strictly less than the symbol's minQuantity,
\* _validate_and_format_quantity returns no formatted quantity, and once the
\* symbol's rules are at hand the failure is BelowMinimum.
C3_BelowMinimumRejected ==
    (/\ call.op = "_validate_and_format_quantity"
     /\ OnListed
     /\ call.args.quantity < exchange.rules.minQty)
    => /\ ~call.out.ok
       /\ call.out.str = <<>>
       /\ call.out.info # NoInfo => call.out.err = "BelowMinimum"

C3_Witness ==
    /\ call.op = "_validate_and_format_quantity"
    /\ call.args.quantity < exchange.rules.minQty
    /\ call.args.quantity > 0
    /\ call.out.err = "BelowMinimum"

\* two consecutive get_symbol_info calls for the same symbol
TwoLookups ==
    /\ prev.op = "get_symbol_info"
    /\ call.op = "get_symbol_info"
    /\ upper(prev.symbol) = upper(call.args.symbol)

\* C4 as stated: for any symbol, listed or not, two consecutive get_symbol_info
\* calls issue at most one exchange-metadata request in total and return
\* identical values.
C4_AnySymbolOneRequest ==
    TwoLookups => /\ prev.out.requests + call.out.requests <= 1
                  /\ prev.out.ok = call.out.ok
                  /\ prev.out.info = call.out.info

\* C4 amended: when the first of two consecutive get_symbol_info calls for a
\* symbol returns rules, the two calls issue at most one exchange-metadata
\* request in total and the second returns the identical rules.
C4_SuccessfulLookupCached ==
    (TwoLookups /\ prev.out.ok)
    => /\ prev.out.requests + call.out.requests <= 1
       /\ call.out.ok
       /\ call.out.info = prev.out.info

C4_Witness ==
    /\ TwoLookups
    /\ prev.out.ok /\ prev.out.requests = 1
    /\ prev.symbol # call.args.symbol
    /\ call.out.requests = 0
    /\ call.args.reply_failed

\* C6: each place_market_order, place_limit_order or cancel_order invocation
\* issues at most one mutating request, and when the exchange rejects it the
\* error reaches the caller and nothing more is sent.
C6_OneMutatingRequestNoRetry ==
    call.op \in PlaceOps \cup {"cancel_order"} =>
        /\ Len(call.out.sent) <= 1
        /\ (Len(call.out.sent) >= 1 /\ call.args.verdict = "ExchangeRejected")
           => /\ ~call.out.ok
              /\ call.out.err = "ExchangeRejected"
              /\ Len(call.out.sent) = 1

C6_Witness ==
    /\ call.op \in PlaceOps
    /\ Len(call.out.sent) = 1
    /\ call.args.verdict = "ExchangeRejected"
    /\ call.out.err = "ExchangeRejected"

OrderRecordFields == {"order_id", "symbol", "side", "type", "quantity", "price", "status"}

C9_Mapped ==
    /\ call.op = "_format_order_response" =>
          LET o == call.args.order
              r == call.out.result
          IN  /\ DOMAIN r = OrderRecordFields
              /\ r.order_id = o.orderId /\ r.symbol = o.symbol /\ r.side = o.side
              /\ r.type = o.type /\ r.status = o.status
              /\ r.quantity = ParseDecimal(o.origQty)
              /\ "price" \notin DOMAIN o => r.price = 0
              /\ "price" \in DOMAIN o => r.price = ParseDecimal(o.price)
    /\ (call.op = "place_market_order" /\ call.out.ok) => call.out.result.price = 0

\* C9: _format_order_response maps every well-formed raw order record to an
\* OrderRecord with all seven fields, a record lacking a price field maps to
\* price = 0, and applying it neither changes session or exchange state nor
\* sends a request.
C9_FormatOrderResponseTotalPure ==
    /\ []C9_Mapped
    /\ [][(call'.op = "_format_order_response" /\ call' # call)
          => UNCHANGED <<cache, exchange, sessions, bot>>]_vars

C9_Witness ==
    /\ call.op = "_format_order_response"
    /\ "price" \notin DOMAIN call.args.order
    /\ call.out.result.price = 0
    /\ call.out.result.quantity > 0

\* the rules lookup or the normalisation of the latest place-order call failed
LookupFailed == ~OnListed \/ (call.out.requests >= 1 /\ call.args.reply_failed)

\* C10: place_market_order and place_limit_order send the create-order request
\* only after the rules lookup and the normalisation both succeeded; when
\* either fails the operation fails and no create-order request is sent.
C10_NoOrderWithoutNormalisation ==
    call.op \in PlaceOps =>
        /\ (LookupFailed \/ call.args.quantity < exchange.rules.minQty)
           => (call.out.sent = <<>> /\ ~call.out.ok)
        /\ call.out.sent # <<>>
           => /\ call.out.info # NoInfo
              /\ call.args.quantity >= call.out.info.min_qty

C10_Witness ==
    /\ call.op \in PlaceOps
    /\ call.out.err \in {"SymbolNotFound", "TransportError", "BelowMinimum"}
    /\ call.out.sent = <<>>

Connected(i) == sessions[i].state = "Connected"

C5_Gate ==
    /\ \A i \in 1..MaxSessions :
          /\ Connected(i) => (sessions[i].ping /\ sessions[i].account)
          /\ sessions[i].state = "Failed" => ~(sessions[i].ping /\ sessions[i].account)
    /\ \A i \in hist.invoked : i # 0 /\ Connected(i)
    /\ bot # 0 => Connected(bot)

\* C5: a session leaves Uninitialized for Connected only if the ping and the
\* account fetch both succeeded and for Failed otherwise, a session that left
\* Uninitialized never changes state again, and neither front end invokes an
\* operation on a session that is not Connected.
C5_ConnectedBeforeUse ==
    /\ []C5_Gate
    /\ [][\A i \in 1..MaxSessions :
             sessions[i].state # "Uninitialized" => sessions'[i] = sessions[i]]_vars

C5_Witness ==
    /\ frontEnd = "dashboard"
    /\ \E i, j \in 1..MaxSessions :
          /\ sessions[i].state = "Failed"
          /\ Connected(j) /\ j \in hist.invoked /\ bot = j

\* C7: in the dashboard the open-order list kept in the session state and
\* offered for the cancel follow-up is never one fetched before the most
\* recent successful order placement or cancellation.
C7_ListNeverPredatesMutation ==
    (frontEnd = "dashboard" /\ bot # 0 /\ CancelFormShown(st)) => ~hist.stale

\* the messages that report the failure of an operation
FailureMessages(op) ==
    CASE op = "get_account_balance" -> {"Failed to get balance", "Could not retrieve balance"}
      [] op = "get_current_price"   -> {"Failed to get price"}
      [] op \in PlaceOps            -> {"Failed to place order", "Order failed"}
      [] op = "get_open_orders"     -> {"Failed to get open orders", "Failed to cancel order",
                                        "Could not fetch orders"}
      [] op = "cancel_order"        -> {"Failed to cancel order"}

C8_Surfaced ==
    /\ ~ui.crashed
    /\ \A op \in ui.failed : FailureMessages(op) \cap ui.msgs # {}
    /\ ui.failed # {} => IF frontEnd = "cli" THEN cli.pc = "menu" /\ cli.running
                         ELSE bot # 0 /\ Connected(bot)

\* C8: in both front ends a failed operation is caught and reported by a
\* message; the CLI is back at its menu and leaves the menu loop only on
\* choice 7, and the dashboard keeps its connected session unless the Connect
\* button is pressed.
C8_FailuresSurfacedFrontEndUsable ==
    /\ []C8_Surfaced
    /\ [][/\ (cli.pc = "menu" /\ cli'.pc # "menu") => ui'.event = "7"
          /\ (frontEnd = "dashboard" /\ bot # 0 /\ bot' # bot) => ui'.event = "connect"]_vars

C8_Witness ==
    /\ frontEnd = "cli"
    /\ "cancel_order" \in ui.failed
    /\ cli.pc = "menu"
    /\ "Failed to cancel order" \in ui.msgs

====
